---- MODULE Spec2Model ----
(***************************************************************************)
(* Model of LoanCalculator.calculate_present_value                         *)
(* (src/loan_calculator.py).                                               *)
(*                                                                         *)
(* A Python value is a record [t, n, d]:                                   *)
(*   t = "int"    an int, value n (d = 1)                                  *)
(*   t = "float"  a finite float, value n/d in lowest terms, d > 0         *)
(*   t = "nan"    the float NaN (every ordered comparison with it is False)*)
(*   t = "str"    a value that is neither int nor float                    *)
(* Finite floats are exact rationals: the arithmetic is that of the reals, *)
(* the binary rounding error of a double is not modelled.                  *)
(***************************************************************************)
EXTENDS Integers, Sequences, FiniteSets

VARIABLES payment, annual_rate, periods, periods_per_year,
          pc, periodic_rate, result, error, log

vars == <<payment, annual_rate, periods, periods_per_year,
          pc, periodic_rate, result, error, log>>

(***************************************************************************)
(* Bounds of the model.                                                    *)
(***************************************************************************)
\* float payments are k/1000 for k in 1..MaxMills
MaxMills == 12
\* the general-case formula is evaluated for periods up to MaxModelPeriods
MaxModelPeriods == 3
\* ... for periods_per_year up to MaxModelFreq
MaxModelFreq == 12
\* ... and for payments up to MaxModelPayment; int payments are 1..MaxModelPayment
MaxModelPayment == 2

(***************************************************************************)
(* Python values and their arithmetic.                                     *)
(***************************************************************************)
Abs(k) == IF k < 0 THEN -k ELSE k

RECURSIVE GCD(_, _)
GCD(a, b) == IF b = 0 THEN a ELSE GCD(b, a % b)

PyInt(k) == [t |-> "int", n |-> k, d |-> 1]

\* the float n/d (d > 0), in lowest terms
PyFloat(n, d) ==
    LET g == GCD(Abs(n), d)
    IN  IF n = 0 THEN [t |-> "float", n |-> 0, d |-> 1]
        ELSE [t |-> "float", n |-> n \div g, d |-> d \div g]

NaN == [t |-> "nan", n |-> 0, d |-> 1]

Str == [t |-> "str", n |-> 0, d |-> 1]

IsNaN(x) == x.t = "nan"

\* sign of the difference a - b of two non-NaN numbers
Cmp(a, b) ==
    LET qa == a.n \div a.d
        qb == b.n \div b.d
        ra == (a.n % a.d) * b.d
        rb == (b.n % b.d) * a.d
    IN  IF qa # qb THEN (IF qa < qb THEN -1 ELSE 1)
        ELSE IF ra < rb THEN -1 ELSE IF ra > rb THEN 1 ELSE 0

\* Python's <, <=, >, == on int and float operands
Lt(a, b) == ~IsNaN(a) /\ ~IsNaN(b) /\ Cmp(a, b) < 0
Le(a, b) == ~IsNaN(a) /\ ~IsNaN(b) /\ Cmp(a, b) <= 0
Gt(a, b) == ~IsNaN(a) /\ ~IsNaN(b) /\ Cmp(a, b) > 0
Eq(a, b) == ~IsNaN(a) /\ ~IsNaN(b) /\ Cmp(a, b) = 0

\* a * b; int * int is an int, anything else a float
Mul(a, b) ==
    IF IsNaN(a) \/ IsNaN(b) THEN NaN
    ELSE IF a.n = 0 \/ b.n = 0
         THEN (IF a.t = "int" /\ b.t = "int" THEN PyInt(0) ELSE PyFloat(0, 1))
    ELSE LET g1 == GCD(Abs(a.n), b.d)
             g2 == GCD(Abs(b.n), a.d)
             n  == (a.n \div g1) * (b.n \div g2)
             d  == (a.d \div g2) * (b.d \div g1)
         IN  IF a.t = "int" /\ b.t = "int" THEN PyInt(n) ELSE PyFloat(n, d)

\* a + b and a - b, as floats
Add(a, b) ==
    IF IsNaN(a) \/ IsNaN(b) THEN NaN
    ELSE PyFloat(a.n * b.d + b.n * a.d, a.d * b.d)

Sub(a, b) ==
    IF IsNaN(a) \/ IsNaN(b) THEN NaN
    ELSE PyFloat(a.n * b.d - b.n * a.d, a.d * b.d)

\* true division a / b with b # 0: always a float
Div(a, b) ==
    IF IsNaN(a) \/ IsNaN(b) THEN NaN
    ELSE LET s == IF b.n < 0 THEN -1 ELSE 1
         IN  Mul(PyFloat(a.n, a.d), PyFloat(s * b.d, Abs(b.n)))

\* base ** -k for a float base > 0 and an int k >= 0
RECURSIVE PowNeg(_, _)
PowNeg(base, k) ==
    IF IsNaN(base) THEN NaN
    ELSE IF k = 0 THEN PyFloat(1, 1)
    ELSE Mul(PyFloat(base.d, base.n), PowNeg(base, k - 1))

\* the integer nearest to n/d (d > 0), a tie going to the even one
RoundHalfEven(n, d) ==
    LET q == n \div d
        r == n % d
    IN  IF 2 * r < d THEN q
        ELSE IF 2 * r > d THEN q + 1
        ELSE IF q % 2 = 0 THEN q ELSE q + 1

RECURSIVE Pow10(_)
Pow10(k) == IF k = 0 THEN 1 ELSE 10 * Pow10(k - 1)

\* the integer nearest to 10^digits * n/d, by long division
RECURSIVE Scaled(_, _, _)
Scaled(n, d, digits) ==
    IF digits = 0 THEN RoundHalfEven(n, d)
    ELSE LET q == n \div d
             r == n % d
         IN  q * Pow10(digits) + Scaled(10 * r, d, digits - 1)

\* Python's round(x, digits): an int is returned as it is, NaN stays NaN, a
\* finite float goes to the nearest multiple of 10^-digits
RoundTo(x, digits) ==
    IF x.t = "int" \/ IsNaN(x) THEN x
    ELSE PyFloat(Scaled(x.n, x.d, digits), Pow10(digits))

(***************************************************************************)
(* LoanCalculator: constants and validators.                               *)
(***************************************************************************)
MAX_INTEREST_RATE == 1
MAX_PAYMENT == 1000000000
MAX_PERIODS == 600
MIN_PERIODS == 1

AllowedFrequencies == {1, 2, 4, 12, 52, 365}

\* isinstance(x, (int, float)) and isinstance(x, int)
IsNumber(x) == x.t \in {"int", "float", "nan"}
IsInt(x) == x.t = "int"

NoError == "none"

validate_payment(p) ==
    IF ~IsNumber(p) THEN "Payment must be a number"
    ELSE IF Le(p, PyInt(0)) THEN "Payment must be positive"
    ELSE IF Gt(p, PyInt(MAX_PAYMENT)) THEN "Payment cannot exceed"
    ELSE NoError

validate_interest_rate(rate) ==
    IF ~IsNumber(rate) THEN "Interest rate must be a number"
    ELSE IF Lt(rate, PyInt(0)) THEN "Interest rate cannot be negative"
    ELSE IF Gt(rate, PyInt(MAX_INTEREST_RATE)) THEN "Interest rate cannot exceed"
    ELSE NoError

validate_periods(n) ==
    IF ~IsInt(n) THEN "Periods must be an integer"
    ELSE IF Lt(n, PyInt(MIN_PERIODS)) THEN "Periods must be at least"
    ELSE IF Gt(n, PyInt(MAX_PERIODS)) THEN "Periods cannot exceed"
    ELSE NoError

validate_periods_per_year(f) ==
    IF ~IsInt(f) THEN "Periods per year must be an integer"
    ELSE IF f.n \notin AllowedFrequencies
         THEN "Periods per year must be 1, 2, 4, 12, 52, or 365"
    ELSE NoError

\* the interest rate validated before the payment
ValidationOrder_rate_first ==
    <<"validate_interest_rate", "validate_payment",
      "validate_periods", "validate_periods_per_year">>

\* the validators in the order calculate_present_value calls them
ValidationOrder ==
    <<"validate_payment", "validate_interest_rate",
      "validate_periods", "validate_periods_per_year">>

\* the step after validator number i
AfterValidation(i) ==
    IF i < Len(ValidationOrder) THEN ValidationOrder[i + 1] ELSE "periodic_rate"

\* (2 - (1 + periodic_rate) ** periods) / periodic_rate: the exponent's sign lost
discount_factor_positive_exponent(rate, n) ==
    LET v == PowNeg(Add(PyInt(1), rate), n.n)
    IN  Div(Sub(PyInt(2), IF IsNaN(v) THEN NaN ELSE PyFloat(v.d, v.n)), rate)

\* (2 - (1 + periodic_rate) ** -periods) / periodic_rate
discount_factor(rate, n) ==
    Div(Sub(PyInt(2), PowNeg(Add(PyInt(1), rate), n.n)), rate)

\* round(payment * discount_factor, 1): one decimal place kept
general_case_one_decimal(p, rate, n) ==
    RoundTo(Mul(p, discount_factor(rate, n)), 1)

\* present_value = payment * discount_factor; round(present_value, 2)
general_case(p, rate, n) ==
    RoundTo(Mul(p, discount_factor(rate, n)), 2)

\* the value calculate_present_value(p, r, n, f) returns once the validators
\* have accepted the call
present_value(p, r, n, f) ==
    LET rate == Div(r, f)
    IN  IF Eq(rate, PyInt(0)) THEN Mul(p, n) ELSE general_case(p, rate, n)

(***************************************************************************)
(* The values a caller passes.  main() passes float(input(...)), which is  *)
(* any float, NaN included; the tests also pass ints and strings.          *)
(***************************************************************************)
Payments ==
    {PyInt(-1), PyInt(0), PyInt(MAX_PAYMENT), PyInt(MAX_PAYMENT + 1), NaN, Str}
    \cup {PyInt(k) : k \in 1..MaxModelPayment}
    \cup {PyFloat(k, 1000) : k \in 1..MaxMills}

Rates ==
    {PyInt(-1), PyInt(0), PyInt(1), PyInt(2), NaN, Str}
    \cup {PyFloat(j, 2) : j \in -1..3}

PeriodValues ==
    {PyInt(-1), PyInt(0), PyInt(MAX_PERIODS), PyInt(MAX_PERIODS + 1),
     PyFloat(2, 1), PyFloat(121, 2), Str}
    \cup {PyInt(k) : k \in MIN_PERIODS..MaxModelPeriods}

Frequencies ==
    {PyInt(f) : f \in AllowedFrequencies}
    \cup {PyInt(0), PyInt(7), PyFloat(12, 1), PyFloat(25, 2), Str}

\* whether the four validators accept the call
Accepted(p, r, n, f) ==
    /\ validate_payment(p) = NoError
    /\ validate_interest_rate(r) = NoError
    /\ validate_periods(n) = NoError
    /\ validate_periods_per_year(f) = NoError

\* an accepted call is drawn only if its arithmetic stays in the model's range
InModelRange(p, r, n, f) ==
    Accepted(p, r, n, f) =>
        IF IsNaN(r) THEN TRUE
        ELSE IF r.n = 0
             THEN IsNaN(p) \/ Le(p, PyInt(MaxModelPayment)) \/ n.n = 1
        ELSE /\ n.n <= MaxModelPeriods
             /\ f.n <= MaxModelFreq
             /\ IsNaN(p) \/ Le(p, PyInt(MaxModelPayment))

(***************************************************************************)
(* calculate_present_value, one action per step.                           *)
(***************************************************************************)
None == [t |-> "none", n |-> 0, d |-> 1]

Init ==
    /\ payment = PyInt(1)
    /\ annual_rate = PyInt(0)
    /\ periods = PyInt(1)
    /\ periods_per_year = PyInt(12)
    /\ pc = "idle"
    /\ periodic_rate = None
    /\ result = None
    /\ error = NoError
    /\ log = <<>>

\* a caller invokes calculate_present_value(p, r, n, f)
Call ==
    /\ pc = "idle"
    /\ \E p \in Payments, r \in Rates, n \in PeriodValues, f \in Frequencies :
          /\ InModelRange(p, r, n, f)
          /\ payment' = p
          /\ annual_rate' = r
          /\ periods' = n
          /\ periods_per_year' = f
    /\ pc' = ValidationOrder[1]
    /\ periodic_rate' = None
    /\ result' = None
    /\ error' = NoError
    /\ log' = <<>>

\* validator number i of ValidationOrder returned or raised e
Validated(step, e) ==
    LET i == CHOOSE k \in 1..Len(ValidationOrder) : ValidationOrder[k] = step
    IN  /\ pc = step
        /\ log' = Append(log, step)
        /\ IF e # NoError
           THEN pc' = "raised" /\ error' = e
           ELSE pc' = AfterValidation(i) /\ error' = error
        /\ UNCHANGED <<payment, annual_rate, periods, periods_per_year,
                       periodic_rate, result>>

ValidatePayment == Validated("validate_payment", validate_payment(payment))

ValidateInterestRate ==
    Validated("validate_interest_rate", validate_interest_rate(annual_rate))

ValidatePeriods == Validated("validate_periods", validate_periods(periods))

ValidatePeriodsPerYear ==
    Validated("validate_periods_per_year",
              validate_periods_per_year(periods_per_year))

\* periodic_rate = annual_rate / periods_per_year
ComputePeriodicRate ==
    /\ pc = "periodic_rate"
    /\ log' = Append(log, "periodic_rate")
    /\ IF periods_per_year.n = 0
       THEN pc' = "raised" /\ error' = "ZeroDivisionError"
            /\ periodic_rate' = periodic_rate
       ELSE pc' = "branch" /\ error' = error
            /\ periodic_rate' = Div(annual_rate, periods_per_year)
    /\ UNCHANGED <<payment, annual_rate, periods, periods_per_year, result>>

\* if periodic_rate == 0: return payment * periods
ZeroRateBranch ==
    /\ pc = "branch"
    /\ log' = Append(log, "branch")
    /\ IF Eq(periodic_rate, PyInt(0))
       THEN pc' = "returned" /\ result' = Mul(payment, periods)
       ELSE pc' = "general" /\ result' = result
    /\ UNCHANGED <<payment, annual_rate, periods, periods_per_year,
                   periodic_rate, error>>

\* present_value = payment * discount_factor; return round(present_value, 2)
GeneralCase ==
    /\ pc = "general"
    /\ log' = Append(log, "general")
    /\ pc' = "returned"
    /\ result' = general_case(payment, periodic_rate, periods)
    /\ UNCHANGED <<payment, annual_rate, periods, periods_per_year,
                   periodic_rate, error>>

\* the call is over: the value or the ValueError is the caller's, and nothing of
\* the call is kept (the class holds no state)
Finish ==
    /\ pc \in {"returned", "raised"}
    /\ payment' = PyInt(1)
    /\ annual_rate' = PyInt(0)
    /\ periods' = PyInt(1)
    /\ periods_per_year' = PyInt(12)
    /\ pc' = "idle"
    /\ periodic_rate' = None
    /\ result' = None
    /\ error' = NoError
    /\ log' = <<>>

Next ==
    \/ Call
    \/ Finish
    \/ ValidatePayment
    \/ ValidateInterestRate
    \/ ValidatePeriods
    \/ ValidatePeriodsPerYear
    \/ ComputePeriodicRate
    \/ ZeroRateBranch
    \/ GeneralCase

Spec == Init /\ [][Next]_vars

(***************************************************************************)
(* What the specification says, in its own terms.                          *)
(***************************************************************************)
\* the documented domain of the four inputs
InDomain(p, r, n, f) ==
    /\ IsNumber(p) /\ Gt(p, PyInt(0)) /\ Le(p, PyInt(MAX_PAYMENT))
    /\ IsNumber(r) /\ Le(PyInt(0), r) /\ Le(r, PyInt(MAX_INTEREST_RATE))
    /\ IsInt(n) /\ MIN_PERIODS <= n.n /\ n.n <= MAX_PERIODS
    /\ IsInt(f) /\ f.n \in AllowedFrequencies

CallInDomain == InDomain(payment, annual_rate, periods, periods_per_year)

\* the ordinary-annuity discount factor (1 - (1 + r)^(-n)) / r
AnnuityFactor(rate, n) ==
    Div(Sub(PyInt(1), PowNeg(Add(PyInt(1), rate), n.n)), rate)

\* |a - b|
Distance(a, b) ==
    LET x == Sub(a, b) IN IF x.n < 0 THEN PyFloat(-x.n, x.d) ELSE x

Cent == PyFloat(1, 100)

\* the documented failure conditions, in the documented order: the input each
\* belongs to (1 payment, 2 rate, 3 periods, 4 periods per year), whether the
\* call meets it, and the error it signals
Rules ==
    <<[input |-> 1, met |-> ~IsNumber(payment),
       msg |-> "Payment must be a number"],
      [input |-> 1, met |-> IsNumber(payment) /\ Le(payment, PyInt(0)),
       msg |-> "Payment must be positive"],
      [input |-> 1, met |-> IsNumber(payment) /\ Gt(payment, PyInt(MAX_PAYMENT)),
       msg |-> "Payment cannot exceed"],
      [input |-> 2, met |-> ~IsNumber(annual_rate),
       msg |-> "Interest rate must be a number"],
      [input |-> 2, met |-> IsNumber(annual_rate) /\ Lt(annual_rate, PyInt(0)),
       msg |-> "Interest rate cannot be negative"],
      [input |-> 2,
       met |-> IsNumber(annual_rate) /\ Gt(annual_rate, PyInt(MAX_INTEREST_RATE)),
       msg |-> "Interest rate cannot exceed"],
      [input |-> 3, met |-> ~IsInt(periods),
       msg |-> "Periods must be an integer"],
      [input |-> 3, met |-> IsInt(periods) /\ periods.n < MIN_PERIODS,
       msg |-> "Periods must be at least"],
      [input |-> 3, met |-> IsInt(periods) /\ periods.n > MAX_PERIODS,
       msg |-> "Periods cannot exceed"],
      [input |-> 4, met |-> ~IsInt(periods_per_year),
       msg |-> "Periods per year must be an integer"],
      [input |-> 4,
       met |-> IsInt(periods_per_year)
               /\ periods_per_year.n \notin AllowedFrequencies,
       msg |-> "Periods per year must be 1, 2, 4, 12, 52, or 365"]>>

Violated == {i \in 1..Len(Rules) : Rules[i].met}

FirstViolated == CHOOSE i \in Violated : \A j \in Violated : i <= j

\* the steps of a call in the documented order
DocumentedSteps ==
    <<"validate_payment", "validate_interest_rate", "validate_periods",
      "validate_periods_per_year", "periodic_rate", "branch", "general">>

\* the steps and the returned value agree with present_value
ModelConsistent ==
    pc = "returned" =>
        result = present_value(payment, annual_rate, periods, periods_per_year)

(***************************************************************************)
(* The claims.                                                             *)
(***************************************************************************)

\* C1: a call in the domain whose periodic rate is not zero returns
\* payment * (1 - (1 + r)^(-periods)) / r rounded to 2 decimal places.
C1_AnnuityFormula ==
    (pc = "returned" /\ CallInDomain /\ ~Eq(periodic_rate, PyInt(0))) =>
        Eq(result,
           RoundTo(Mul(payment, AnnuityFactor(periodic_rate, periods)), 2))

\* C2: a call in the domain with annual rate 0 returns payment * periods
\* rounded to 2 decimal places.
C2_ZeroRateRounded ==
    (pc = "returned" /\ CallInDomain /\ Eq(annual_rate, PyInt(0))) =>
        Eq(result, RoundTo(Mul(payment, periods), 2))

\* C3: every value returned for a call in the domain equals itself rounded to
\* 2 decimal places.
C3_RoundingIdempotent ==
    (pc = "returned" /\ CallInDomain) => Eq(result, RoundTo(result, 2))

\* C4: a call returns a value if and only if its inputs are in the documented
\* domain; a failing call raises and leaves no value.
C4_ReturnsIffInDomain ==
    /\ pc = "returned" => CallInDomain /\ result # None
    /\ pc = "raised" => ~CallInDomain /\ result = None /\ error # NoError

\* C5: the steps run in the documented order; a rejected call signals the error
\* of the first documented rule it violates, having run the validators up to
\* that rule's input and nothing after it (no later validator, no arithmetic).
C5_FirstViolatedRule ==
    /\ log = SubSeq(DocumentedSteps, 1, Len(log))
    /\ pc = "raised" =>
          /\ Violated # {}
          /\ error = Rules[FirstViolated].msg
          /\ Len(log) = Rules[FirstViolated].input
          /\ periodic_rate = None
          /\ result = None

\* C5 witness: a rejected call that violates rules of three different inputs
\* and signals the interest-rate error.
C5_Witness ==
    /\ pc = "raised"
    /\ Cardinality({Rules[i].input : i \in Violated}) = 3
    /\ error = "Interest rate cannot exceed"
    /\ log = <<"validate_payment", "validate_interest_rate">>

\* C6: for a call in the domain and any larger annual rate in the domain, the
\* value at the larger rate is strictly less than the value returned.
C6_MonotonicDiscounting ==
    (pc = "returned" /\ CallInDomain) =>
        \A r2 \in Rates :
            ( /\ InDomain(payment, r2, periods, periods_per_year)
              /\ InModelRange(payment, r2, periods, periods_per_year)
              /\ Gt(r2, annual_rate) ) =>
                Lt(present_value(payment, r2, periods, periods_per_year), result)

\* C7: a call in the domain with a strictly positive annual rate returns less
\* than payment * periods.
C7_BelowUndiscountedSum ==
    (pc = "returned" /\ CallInDomain /\ Gt(annual_rate, PyInt(0))) =>
        Lt(result, Mul(payment, periods))

\* the calls in the domain that pay twice the payment of the current call
Doubled ==
    {p2 \in Payments :
        /\ Eq(p2, Mul(PyInt(2), payment))
        /\ InDomain(p2, annual_rate, periods, periods_per_year)
        /\ InModelRange(p2, annual_rate, periods, periods_per_year)}

\* distance between the value at twice the payment and twice the value returned
DoublingGap(p2) ==
    Distance(present_value(p2, annual_rate, periods, periods_per_year),
             Mul(PyInt(2), result))

C9_StrictlyPositive ==
    (pc = "returned" /\ CallInDomain) => Gt(result, PyInt(0))

\* C9 amended: every value returned for a call in the domain is greater than or
\* equal to 0, and strictly greater than 0 when the payment is at least 0.01.
C9_NonNegative ==
    (pc = "returned" /\ CallInDomain) =>
        /\ Le(PyInt(0), result)
        /\ Le(Cent, payment) => Gt(result, PyInt(0))

\* C9 witness: a general-case call in the domain, with a payment below one
\* cent, that returns 0.
C9_Witness ==
    /\ pc = "returned"
    /\ CallInDomain
    /\ ~Eq(periodic_rate, PyInt(0))
    /\ Lt(payment, Cent)
    /\ Eq(result, PyInt(0))

\* C10: when execution reaches the general-case formula the validators have
\* accepted the inputs, periods_per_year is not zero, the periodic rate is
\* strictly positive and 1 + periodic_rate lies in (1, 2].
C10_GeneralCasePreconditions ==
    pc = "general" =>
        /\ Accepted(payment, annual_rate, periods, periods_per_year)
        /\ periods_per_year.n # 0
        /\ Gt(periodic_rate, PyInt(0))
        /\ Gt(Add(PyInt(1), periodic_rate), PyInt(1))
        /\ Le(Add(PyInt(1), periodic_rate), PyInt(2))

====
